---- MODULE Spec2Model ----
(***************************************************************************)
(* sdcv: main() of src/src/sdcv.cpp as a state machine.                    *)
(*                                                                         *)
(* One run of the program: option parsing, the version and list-dicts      *)
(* short cuts, the bookname -> .ifo catalog built by the for_each_file     *)
(* callback, the order_list / disable_list resolution (use-dict branch or  *)
(* .sdcv_ordering branch), Library::load, and the batch / interactive /    *)
(* "nothing to translate" session.  The collaborators (GOption parser,     *)
(* for_each_file, DictInfo::load_from_ifo_file, stdio_getline,             *)
(* Library::load, Library::process_phrase, IReadLine::read) are the        *)
(* environment: their results are chosen with \E where main() calls them.  *)
(***************************************************************************)
EXTENDS Integers, Sequences, FiniteSets

\* ---- bounds of the model -------------------------------------------------
MaxFiles == 2      \* .ifo files the enumerator yields in one run
MaxUse == 2        \* --use-dict occurrences on the command line
MaxLines == 2      \* lines of ~/.sdcv_ordering
MaxArgs == 2       \* words left on the command line after the options
MaxReads == 2      \* lines the user types before end-of-input

\* ---- values --------------------------------------------------------------
\* booknames an .ifo file can carry; KeyOrder is their std::map (operator<) order
BookNames == {"A", "B"}
KeyOrder == <<"A", "B">>
\* a line of the ordering file: a bookname or the empty line
OrderingLines == BookNames \cup {""}
\* a line read from the terminal: a word or the empty line
Phrases == {"word", ""}
\* dicts_dir_list: 1 = $HOME/.stardict/dic, 2 = data_dir
dicts_dir_list == <<1, 2>>

SeqsUpTo(S, lo, hi) == UNION {[1..n -> S] : n \in lo..hi}

VARIABLES
    pc,               \* position in main()
    exit_status,      \* "running", "EXIT_SUCCESS" or "EXIT_FAILURE"
    parse_res,        \* result of g_option_context_parse
    show_version,
    show_list_dicts,
    use_dict_list,    \* <<>> is the nullptr of an absent --use-dict
    non_interactive,
    nargs,            \* argc - optind
    files,            \* the .ifo files for_each_file has handed to the callback
    bookname_to_ifo,
    ordering_file,    \* [open |-> fopen succeeded, lines |-> what getline yields]
    order_list,
    disable_list,
    loads,            \* arguments of each Library::load call
    calls,            \* each Library::process_phrase call and its result
    prompts,          \* number of IReadLine::read calls
    i,                \* the batch loop's index, relative to optind
    phrase,
    out,              \* what the run printed, in order
    twin              \* resolution of a second run that differs in the ordering file

vars == <<pc, exit_status, parse_res, show_version, show_list_dicts, use_dict_list,
          non_interactive, nargs, files, bookname_to_ifo, ordering_file, order_list,
          disable_list, loads, calls, prompts, i, phrase, out, twin>>

opts == <<parse_res, show_version, show_list_dicts, use_dict_list, non_interactive, nargs>>
catalog == <<files, bookname_to_ifo>>
selection == <<ordering_file, order_list, disable_list, twin>>

\* no FILE: fopen was not called or returned nullptr
NoOrderingFile == [open |-> FALSE, lines |-> <<>>]
session == <<loads, calls, prompts, i, phrase>>

EmptyMap == [n \in {} |-> <<>>]

Init ==
    /\ pc = "parse"
    /\ exit_status = "running"
    /\ parse_res = FALSE
    /\ show_version = FALSE
    /\ show_list_dicts = FALSE
    /\ use_dict_list = <<>>
    /\ non_interactive = FALSE
    /\ nargs = 0
    /\ files = <<>>
    /\ bookname_to_ifo = EmptyMap
    /\ ordering_file = NoOrderingFile
    /\ order_list = <<>>
    /\ disable_list = <<>>
    /\ loads = <<>>
    /\ calls = <<>>
    /\ prompts = 0
    /\ i = 0
    /\ phrase = ""
    /\ out = <<>>
    /\ twin = <<>>

\* return EXIT_x / exit(EXIT_x), after printing msgs
Return(status, msgs) ==
    /\ pc' = "done"
    /\ exit_status' = status
    /\ out' = out \o msgs

\* the handler of main's function-try-block
CatchStdException == Return("EXIT_FAILURE", << <<"Internal error">> >>)

\* ---- option parsing and the two short cuts --------------------------------
\* g_option_context_parse fills the option variables and leaves the words
ParseArgs ==
    /\ pc = "parse"
    /\ \E res \in BOOLEAN, v \in BOOLEAN, l \in BOOLEAN, n \in BOOLEAN,
          u \in SeqsUpTo(BookNames, 0, MaxUse), k \in 0..MaxArgs :
        /\ parse_res' = res
        /\ show_version' = v
        /\ show_list_dicts' = l
        /\ non_interactive' = n
        /\ use_dict_list' = u
        /\ nargs' = k
    /\ pc' = "parsed"
    /\ UNCHANGED <<exit_status, out, catalog, selection, session>>

InvalidArgs ==
    /\ pc = "parsed"
    /\ ~parse_res
    /\ Return("EXIT_FAILURE", << <<"Invalid command line arguments">> >>)
    /\ UNCHANGED <<opts, catalog, selection, session>>

\* faulty variant: the version is printed but main() does not return
ShowVersionNoReturn ==
    /\ pc = "parsed"
    /\ parse_res
    /\ show_version
    /\ pc' = "build"
    /\ out' = Append(out, <<"version">>)
    /\ UNCHANGED <<exit_status, opts, catalog, selection, session>>

ShowVersion ==
    /\ pc = "parsed"
    /\ parse_res
    /\ show_version
    /\ Return("EXIT_SUCCESS", << <<"version">> >>)
    /\ UNCHANGED <<opts, catalog, selection, session>>

\* list_dicts prints its header before enumerating
StartListDicts ==
    /\ pc = "parsed"
    /\ parse_res
    /\ ~show_version
    /\ show_list_dicts
    /\ pc' = "list"
    /\ out' = Append(out, <<"Dictionary's name   Word count">>)
    /\ UNCHANGED <<exit_status, opts, catalog, selection, session>>

StartCatalog ==
    /\ pc = "parsed"
    /\ parse_res
    /\ ~show_version
    /\ ~show_list_dicts
    /\ pc' = "build"
    /\ UNCHANGED <<exit_status, out, opts, catalog, selection, session>>

\* ---- enumeration of the .ifo files ----------------------------------------
\* The directory the enumerator is in: files come directory by directory.
CurDir == IF files = <<>> THEN 1 ELSE files[Len(files)].dir

\* The next file for_each_file hands to the callback: in directory d, parsed
\* or not, with bookname b when parsed; its path is new.
NextFile(d, ok, b) ==
    [dir |-> d, load_ok |-> ok, bookname |-> IF ok THEN b ELSE "",
     ifo_file_name |-> <<d, Len(files) + 1>>]

CanEnumerate == Len(files) < MaxFiles

\* faulty variant: the result of load_from_ifo_file is not tested
ListCallbackUnchecked(f) == << <<"dict", f.bookname>> >>

\* list_dicts' callback: one line per file that load_from_ifo_file accepts
ListCallback(f) == IF f.load_ok THEN << <<"dict", f.bookname>> >> ELSE <<>>

ListDictsFile ==
    /\ pc = "list"
    /\ CanEnumerate
    /\ \E d \in CurDir..Len(dicts_dir_list), ok \in BOOLEAN, b \in BookNames :
        LET f == NextFile(d, ok, b) IN
        /\ files' = Append(files, f)
        /\ out' = out \o ListCallback(f)
    /\ UNCHANGED <<pc, exit_status, opts, bookname_to_ifo, selection, session>>

ListDictsDone ==
    /\ pc = "list"
    /\ Return("EXIT_SUCCESS", <<>>)
    /\ UNCHANGED <<opts, catalog, selection, session>>

\* faulty variant: std::map::insert semantics, an existing key keeps its value
MapAssignFirstWins(m, key, val) ==
    IF key \in DOMAIN m THEN m
    ELSE [n \in DOMAIN m \cup {key} |-> IF n = key THEN val ELSE m[n]]

\* m[key] = val: std::map operator[] assignment, an existing key is overwritten
MapAssign(m, key, val) ==
    [n \in DOMAIN m \cup {key} |-> IF n = key THEN val ELSE m[n]]

\* main's callback: a file that fails to load is skipped
CatalogCallback(m, f) ==
    IF ~f.load_ok THEN m ELSE MapAssign(m, f.bookname, f.ifo_file_name)

CatalogFile ==
    /\ pc = "build"
    /\ CanEnumerate
    /\ \E d \in CurDir..Len(dicts_dir_list), ok \in BOOLEAN, b \in BookNames :
        LET f == NextFile(d, ok, b) IN
        /\ files' = Append(files, f)
        /\ bookname_to_ifo' = CatalogCallback(bookname_to_ifo, f)
    /\ UNCHANGED <<pc, exit_status, out, opts, selection, session>>

CatalogDone ==
    /\ pc = "build"
    /\ pc' = "resolve"
    /\ UNCHANGED <<exit_status, out, opts, catalog, selection, session>>

\* ---- order_list and disable_list ------------------------------------------
\* iteration over a std::map visits its keys in key order
MapKeys(m) == SelectSeq(KeyOrder, LAMBDA n : n \in DOMAIN m)

\* faulty variant: only the first *p is compared
InUseHeadOnly(name, use) == use # <<>> /\ use[1] = name

\* the inner loop over use_dict_list: does some *p equal the bookname?
InUse(name, use) == \E k \in 1..Len(use) : use[k] = name

\* faulty variant: the inner loop's result is not tested, every entry is disabled
RECURSIVE DisablePassAll(_, _, _)
DisablePassAll(m, keys, use) ==
    IF keys = <<>> THEN <<>>
    ELSE <<m[Head(keys)]>> \o DisablePassAll(m, Tail(keys), use)

\* the outer loop: the .ifo of every catalog entry no *p names is disabled
RECURSIVE DisablePass(_, _, _)
DisablePass(m, keys, use) ==
    IF keys = <<>> THEN <<>>
    ELSE (IF InUse(Head(keys), use) THEN <<>> ELSE <<m[Head(keys)]>>)
         \o DisablePass(m, Tail(keys), use)

\* faulty variant: a name that is no key is skipped (find instead of at)
RECURSIVE AtPassSkipping(_, _)
AtPassSkipping(m, names) ==
    IF names = <<>> THEN [list |-> <<>>, thrown |-> FALSE]
    ELSE LET r == AtPassSkipping(m, Tail(names)) IN
         IF Head(names) \notin DOMAIN m THEN r
         ELSE [list |-> <<m[Head(names)]>> \o r.list, thrown |-> r.thrown]

\* faulty variant: push_front instead of push_back
RECURSIVE AtPassPushFront(_, _)
AtPassPushFront(m, names) ==
    IF names = <<>> THEN [list |-> <<>>, thrown |-> FALSE]
    ELSE IF Head(names) \notin DOMAIN m THEN [list |-> <<>>, thrown |-> TRUE]
    ELSE LET r == AtPassPushFront(m, Tail(names)) IN
         [list |-> r.list \o <<m[Head(names)]>>, thrown |-> r.thrown]

\* order_list.push_back(bookname_to_ifo.at(name)) for each name in turn;
\* std::map::at throws std::out_of_range at the first name that is no key,
\* leaving what was pushed before it
RECURSIVE AtPass(_, _)
AtPass(m, names) ==
    IF names = <<>> THEN [list |-> <<>>, thrown |-> FALSE]
    ELSE IF Head(names) \notin DOMAIN m THEN [list |-> <<>>, thrown |-> TRUE]
    ELSE LET r == AtPass(m, Tail(names)) IN
         [list |-> <<m[Head(names)]>> \o r.list, thrown |-> r.thrown]

\* after resolution: on to conf_dir and the Library, or into the handler
AfterResolve(thrown) ==
    IF thrown
    THEN CatchStdException
    ELSE /\ pc' = "load"
         /\ UNCHANGED <<exit_status, out>>

\* faulty variant: the else is missing, the ordering file is read after --use-dict
ResolutionAlsoOrdering(m, use, disk) ==
    LET names == IF disk.open THEN use \o disk.lines ELSE use
        r == AtPass(m, names) IN
    [ordering_file |-> IF use = <<>> \/ disk.open THEN disk ELSE NoOrderingFile,
     disable_list |-> IF use # <<>> THEN DisablePass(m, MapKeys(m), use) ELSE <<>>,
     order_list |-> r.list,
     thrown |-> r.thrown]

\* The if/else that fills disable_list and order_list from the catalog m, the
\* --use-dict names and the ordering file as it is on disk (disk.open: fopen
\* would succeed).  ordering_file is the FILE main() ends up holding, thrown
\* whether at() threw.
Resolution(m, use, disk) ==
    IF use # <<>>
    THEN LET r == AtPass(m, use) IN
         [ordering_file |-> NoOrderingFile,
          disable_list |-> DisablePass(m, MapKeys(m), use),
          order_list |-> r.list,
          thrown |-> r.thrown]
    ELSE IF disk.open
    THEN LET r == AtPass(m, disk.lines) IN
         [ordering_file |-> disk,
          disable_list |-> <<>>,
          order_list |-> r.list,
          thrown |-> r.thrown]
    ELSE [ordering_file |-> NoOrderingFile,
          disable_list |-> <<>>,
          order_list |-> <<>>,
          thrown |-> FALSE]

\* resolution in this run, with the ordering file as it is on disk
Resolve(disk) ==
    LET r == Resolution(bookname_to_ifo, use_dict_list, disk) IN
    /\ ordering_file' = r.ordering_file
    /\ order_list' = r.order_list
    /\ disable_list' = r.disable_list
    /\ AfterResolve(r.thrown)

\* use_dict_list != nullptr: the ordering file plays no part and is not drawn
ResolveUseDict ==
    /\ pc = "resolve"
    /\ use_dict_list # <<>>
    /\ Resolve(NoOrderingFile)
    /\ UNCHANGED <<opts, catalog, session, twin>>

\* no --use-dict, and fopen of ~/.sdcv_ordering succeeds
ResolveOrderingFile ==
    /\ pc = "resolve"
    /\ use_dict_list = <<>>
    /\ \E lines \in SeqsUpTo(OrderingLines, 0, MaxLines) :
        Resolve([open |-> TRUE, lines |-> lines])
    /\ UNCHANGED <<opts, catalog, session, twin>>

\* faulty variant: a missing ordering file treated as an error
ResolveNoOrderingFileThrows ==
    /\ pc = "resolve"
    /\ use_dict_list = <<>>
    /\ CatchStdException
    /\ UNCHANGED <<opts, catalog, selection, session>>

\* no --use-dict, and fopen returns nullptr
ResolveNoOrderingFile ==
    /\ pc = "resolve"
    /\ use_dict_list = <<>>
    /\ Resolve(NoOrderingFile)
    /\ UNCHANGED <<opts, catalog, session, twin>>

\* ---- the Library -----------------------------------------------------------
\* faulty variant: a failed load is ignored
LoadLibrarySwallow ==
    /\ pc = "load"
    /\ \E ok \in BOOLEAN :
        /\ loads' = Append(loads, [dirs |-> dicts_dir_list, order_list |-> order_list,
                                   disable_list |-> disable_list, ok |-> ok])
        /\ pc' = "session"
        /\ UNCHANGED <<exit_status, out>>
    /\ UNCHANGED <<opts, catalog, selection, calls, prompts, i, phrase>>

\* faulty variant: order_list and disable_list passed in each other's place
LoadLibrarySwapped ==
    /\ pc = "load"
    /\ \E ok \in BOOLEAN :
        /\ loads' = Append(loads, [dirs |-> dicts_dir_list, order_list |-> disable_list,
                                   disable_list |-> order_list, ok |-> ok])
        /\ IF ok
           THEN /\ pc' = "session"
                /\ UNCHANGED <<exit_status, out>>
           ELSE CatchStdException
    /\ UNCHANGED <<opts, catalog, selection, calls, prompts, i, phrase>>

\* g_mkdir of conf_dir only prints to stderr on failure and changes nothing
\* below; then the Library is constructed and load is called, once.  main()
\* looks at no result of load: a load that fails does so by throwing, which
\* lands in the handler of the function-try-block.
LoadLibrary ==
    /\ pc = "load"
    /\ \E ok \in BOOLEAN :
        /\ loads' = Append(loads, [dirs |-> dicts_dir_list, order_list |-> order_list,
                                   disable_list |-> disable_list, ok |-> ok])
        /\ IF ok
           THEN /\ pc' = "session"
                /\ UNCHANGED <<exit_status, out>>
           ELSE CatchStdException
    /\ UNCHANGED <<opts, catalog, selection, calls, prompts, i, phrase>>

\* ---- the session -----------------------------------------------------------
\* faulty variant: non_interactive is not tested
StartSessionIgnoringFlag ==
    /\ pc = "session"
    /\ IF nargs > 0
       THEN /\ pc' = "batch"
            /\ i' = 1
            /\ UNCHANGED <<exit_status, out>>
       ELSE /\ pc' = "read"
            /\ UNCHANGED <<exit_status, out, i>>
    /\ UNCHANGED <<opts, catalog, selection, loads, calls, prompts, phrase>>

\* faulty variant: non_interactive is tested before optind < argc
StartSessionFlagFirst ==
    /\ pc = "session"
    /\ IF non_interactive /\ nargs = 0
       THEN /\ Return("EXIT_SUCCESS", << <<"There are no words/phrases to translate.">> >>)
            /\ UNCHANGED i
       ELSE IF non_interactive
       THEN /\ Return("EXIT_SUCCESS", << <<"There are no words/phrases to translate.">> >>)
            /\ UNCHANGED i
       ELSE IF nargs > 0
       THEN /\ pc' = "batch"
            /\ i' = 1
            /\ UNCHANGED <<exit_status, out>>
       ELSE /\ pc' = "read"
            /\ UNCHANGED <<exit_status, out, i>>
    /\ UNCHANGED <<opts, catalog, selection, loads, calls, prompts, phrase>>

\* optind < argc, else !non_interactive, else the message
StartSession ==
    /\ pc = "session"
    /\ IF nargs > 0
       THEN /\ pc' = "batch"
            /\ i' = 1
            /\ UNCHANGED <<exit_status, out>>
       ELSE IF ~non_interactive
       THEN /\ pc' = "read"
            /\ UNCHANGED <<exit_status, out, i>>
       ELSE /\ Return("EXIT_SUCCESS", << <<"There are no words/phrases to translate.">> >>)
            /\ UNCHANGED i
    /\ UNCHANGED <<opts, catalog, selection, loads, calls, prompts, phrase>>

Call(mode, idx, text, ok) == [mode |-> mode, idx |-> idx, text |-> text, ok |-> ok]

\* faulty variant: the result of process_phrase is dropped
BatchPhraseKeepGoing ==
    /\ pc = "batch"
    /\ i <= nargs
    /\ \E ok \in BOOLEAN :
        /\ calls' = Append(calls, Call("batch", i, "argv", ok))
        /\ i' = i + 1
        /\ UNCHANGED <<pc, exit_status, out>>
    /\ UNCHANGED <<opts, catalog, selection, loads, prompts, phrase>>

\* one turn of the for loop over argv[optind..argc)
BatchPhrase ==
    /\ pc = "batch"
    /\ i <= nargs
    /\ \E ok \in BOOLEAN :
        /\ calls' = Append(calls, Call("batch", i, "argv", ok))
        /\ IF ok
           THEN /\ i' = i + 1
                /\ UNCHANGED <<pc, exit_status, out>>
           ELSE /\ Return("EXIT_FAILURE", <<>>)
                /\ UNCHANGED i
    /\ UNCHANGED <<opts, catalog, selection, loads, prompts, phrase>>

BatchDone ==
    /\ pc = "batch"
    /\ i > nargs
    /\ Return("EXIT_SUCCESS", <<>>)
    /\ UNCHANGED <<opts, catalog, selection, session>>

\* io->read returns true with a line
ReadLine ==
    /\ pc = "read"
    /\ prompts < MaxReads
    /\ \E line \in Phrases :
        /\ phrase' = line
    /\ prompts' = prompts + 1
    /\ pc' = "lookup"
    /\ UNCHANGED <<exit_status, out, opts, catalog, selection, loads, calls, i>>

\* faulty variant: end of input does not leave the loop, read is tried again
ReadEndOfInputRetry ==
    /\ pc = "read"
    /\ UNCHANGED vars

\* io->read returns false: the loop ends, putchar('\n')
ReadEndOfInput ==
    /\ pc = "read"
    /\ prompts' = prompts + 1
    /\ Return("EXIT_SUCCESS", << <<"\n">> >>)
    /\ UNCHANGED <<opts, catalog, selection, loads, calls, i, phrase>>

\* faulty variant: break instead of return, so the blank line is printed
InteractivePhraseBlankOnFailure ==
    /\ pc = "lookup"
    /\ \E ok \in BOOLEAN :
        /\ calls' = Append(calls, Call("interactive", prompts, phrase, ok))
        /\ IF ok
           THEN /\ pc' = "read"
                /\ phrase' = ""
                /\ UNCHANGED <<exit_status, out>>
           ELSE /\ Return("EXIT_FAILURE", << <<"\n">> >>)
                /\ UNCHANGED phrase
    /\ UNCHANGED <<opts, catalog, selection, loads, prompts, i>>

\* faulty variant: process_phrase is called on non-empty lines only
InteractivePhraseSkipEmpty ==
    /\ pc = "lookup"
    /\ IF phrase = ""
       THEN /\ pc' = "read"
            /\ UNCHANGED <<exit_status, out, calls, phrase>>
       ELSE \E ok \in BOOLEAN :
            /\ calls' = Append(calls, Call("interactive", prompts, phrase, ok))
            /\ IF ok
               THEN /\ pc' = "read"
                    /\ phrase' = ""
                    /\ UNCHANGED <<exit_status, out>>
               ELSE /\ Return("EXIT_FAILURE", <<>>)
                    /\ UNCHANGED phrase
    /\ UNCHANGED <<opts, catalog, selection, loads, prompts, i>>

\* the loop body: process_phrase on the line, then phrase.clear()
InteractivePhrase ==
    /\ pc = "lookup"
    /\ \E ok \in BOOLEAN :
        /\ calls' = Append(calls, Call("interactive", prompts, phrase, ok))
        /\ IF ok
           THEN /\ pc' = "read"
                /\ phrase' = ""
                /\ UNCHANGED <<exit_status, out>>
           ELSE /\ Return("EXIT_FAILURE", <<>>)
                /\ UNCHANGED phrase
    /\ UNCHANGED <<opts, catalog, selection, loads, prompts, i>>

Next ==
    \/ ParseArgs
    \/ InvalidArgs
    \/ ShowVersion
    \/ StartListDicts
    \/ StartCatalog
    \/ ListDictsFile
    \/ ListDictsDone
    \/ CatalogFile
    \/ CatalogDone
    \/ ResolveUseDict
    \/ ResolveOrderingFile
    \/ ResolveNoOrderingFile
    \/ LoadLibrary
    \/ StartSession
    \/ BatchPhrase
    \/ BatchDone
    \/ ReadLine
    \/ ReadEndOfInput
    \/ InteractivePhrase

Spec == Init /\ [][Next]_vars

\* main() is one thread: as long as the collaborator it is calling returns, it
\* takes its next step.  The enumerator hands over finitely many files and the
\* user types finitely many lines before end of input.
LiveSpec == Spec /\ WF_vars(Next)

\* ---- two runs that differ only in the ordering file ------------------------
\* Both runs get the same command line with a --use-dict list and enumerate the
\* same files.  The run in the state variables finds no ordering file; the
\* second run, kept in twin, finds the file disk, which is any file at all.
\* Every such run being compared with the same first run, any two of them are
\* compared with each other.
OrderingFilesOnDisk ==
    {NoOrderingFile} \cup
        {[open |-> TRUE, lines |-> l] : l \in SeqsUpTo(OrderingLines, 0, MaxLines)}

\* sdcv -u name ... with no words
TwinParseArgs ==
    /\ pc = "parse"
    /\ \E u \in SeqsUpTo(BookNames, 1, MaxUse) : use_dict_list' = u
    /\ parse_res' = TRUE
    /\ show_version' = FALSE
    /\ show_list_dicts' = FALSE
    /\ non_interactive' = FALSE
    /\ nargs' = 0
    /\ pc' = "parsed"
    /\ UNCHANGED <<exit_status, out, catalog, selection, session>>

TwinResolve ==
    /\ pc = "resolve"
    /\ Resolve(NoOrderingFile)
    /\ \E disk \in OrderingFilesOnDisk :
        twin' = << [disk |-> disk,
                    result |-> Resolution(bookname_to_ifo, use_dict_list, disk)] >>
    /\ UNCHANGED <<opts, catalog, session>>

TwinNext ==
    \/ TwinParseArgs
    \/ StartCatalog
    \/ CatalogFile
    \/ CatalogDone
    \/ TwinResolve

TwinSpec == Init /\ [][TwinNext]_vars

\* ---- properties -------------------------------------------------------------
Range(s) == {s[k] : k \in 1..Len(s)}

\* the run got past the parser and took neither short cut
ReachesResolution == parse_res /\ ~show_version /\ ~show_list_dicts

\* main() has left the resolution of order_list / disable_list behind
PastResolve == pc \in {"load", "session", "batch", "read", "lookup", "done"}

\* resolution ended without throwing
ResolutionSucceeded == pc \in {"load", "session", "batch", "read", "lookup"} \/ loads # <<>>

\* Library::load returned and main() chose a session mode
SessionStarted ==
    \/ pc \in {"batch", "read", "lookup"}
    \/ pc = "done" /\ loads # <<>> /\ loads[Len(loads)].ok

NothingToTranslate == <<"There are no words/phrases to translate.">>

\* C1: with --use-dict names that are all catalog keys, resolution succeeds,
\* disable_list holds exactly (once each) the .ifo paths of the catalog entries
\* whose bookname is not among the names, and order_list is the .ifo path of
\* each name in the order given, a repeated name giving a repeated path.
C1_UseDictResolution ==
    (ReachesResolution /\ PastResolve /\ use_dict_list # <<>>
        /\ Range(use_dict_list) \subseteq DOMAIN bookname_to_ifo)
    => LET unused == DOMAIN bookname_to_ifo \ Range(use_dict_list) IN
       /\ ResolutionSucceeded
       /\ order_list = [k \in 1..Len(use_dict_list) |-> bookname_to_ifo[use_dict_list[k]]]
       /\ Range(disable_list) = {bookname_to_ifo[n] : n \in unused}
       /\ Len(disable_list) = Cardinality(unused)

\* C1 witness: a repeated name resolved while another catalog entry is disabled
C1_Witness ==
    /\ pc = "load"
    /\ use_dict_list = <<"A", "A">>
    /\ DOMAIN bookname_to_ifo = {"A", "B"}
    /\ Len(order_list) = 2
    /\ Len(disable_list) = 1

\* the source of names in force names something that is no catalog key
UnknownName ==
    IF use_dict_list # <<>>
    THEN ~(Range(use_dict_list) \subseteq DOMAIN bookname_to_ifo)
    ELSE ordering_file.open /\ ~(Range(ordering_file.lines) \subseteq DOMAIN bookname_to_ifo)

\* C2: once resolution has met a name absent from the catalog (in --use-dict,
\* or in the ordering file when there is no --use-dict) the run is over with
\* EXIT_FAILURE, and Library::load, the prompt and process_phrase never ran.
C2_UnknownNameIsFatal ==
    (ReachesResolution /\ PastResolve /\ UnknownName)
    => /\ pc = "done"
       /\ exit_status = "EXIT_FAILURE"
       /\ loads = <<>>
       /\ prompts = 0
       /\ calls = <<>>

\* C2 witness: a run with words to look up that died on an unknown --use-dict name
C2_Witness ==
    /\ pc = "done"
    /\ ReachesResolution
    /\ use_dict_list = <<"A", "B">>
    /\ DOMAIN bookname_to_ifo = {"A"}
    /\ nargs > 0
    /\ exit_status = "EXIT_FAILURE"

\* C3: in batch mode process_phrase is called on argv[optind], argv[optind+1],
\* ... in that order; nothing is called after a call that returned false, which
\* ends the run with EXIT_FAILURE; the run ends with EXIT_SUCCESS exactly when
\* every word was looked up and every call returned true.
C3_BatchStopsAtFirstFailure ==
    (SessionStarted /\ nargs > 0)
    => /\ prompts = 0
       /\ Len(calls) <= nargs
       /\ \A k \in 1..Len(calls) : calls[k].mode = "batch" /\ calls[k].idx = k
       /\ \A k \in 1..(Len(calls) - 1) : calls[k].ok
       /\ (calls # <<>> /\ ~calls[Len(calls)].ok)
            => (pc = "done" /\ exit_status = "EXIT_FAILURE")
       /\ pc = "done"
            => (exit_status = "EXIT_SUCCESS"
                  <=> (Len(calls) = nargs /\ \A k \in 1..Len(calls) : calls[k].ok))

\* C3 witness: two words, the first lookup failed, the second was never tried
C3_Witness ==
    /\ pc = "done"
    /\ nargs = 2
    /\ Len(calls) = 1
    /\ ~calls[1].ok
    /\ exit_status = "EXIT_FAILURE"

\* C4: in interactive mode every read is followed by one process_phrase before
\* the next read; a process_phrase that returns false ends the run at once with
\* EXIT_FAILURE, with no further read and no blank line; end of input ends the
\* run with EXIT_SUCCESS, the blank line being the last thing printed.
C4_InteractiveLoop ==
    (SessionStarted /\ nargs = 0 /\ ~non_interactive)
    => /\ \A k \in 1..Len(calls) : calls[k].mode = "interactive" /\ calls[k].idx = k
       /\ \A k \in 1..(Len(calls) - 1) : calls[k].ok
       /\ pc = "read" => prompts = Len(calls)
       /\ pc = "lookup" => prompts = Len(calls) + 1
       /\ (calls # <<>> /\ ~calls[Len(calls)].ok)
            => /\ pc = "done"
               /\ exit_status = "EXIT_FAILURE"
               /\ prompts = Len(calls)
               /\ out = <<>>
       /\ pc = "done"
            => \/ calls # <<>> /\ ~calls[Len(calls)].ok
               \/ /\ exit_status = "EXIT_SUCCESS"
                  /\ prompts = Len(calls) + 1
                  /\ out = << <<"\n">> >>

\* C4 witness: the second line's lookup failed and ended the session
C4_Witness ==
    /\ pc = "done"
    /\ nargs = 0
    /\ Len(calls) = 2
    /\ calls[1].ok
    /\ ~calls[2].ok
    /\ prompts = 2
    /\ exit_status = "EXIT_FAILURE"

C6_OrderingFileOrder ==
    (ReachesResolution /\ PastResolve /\ use_dict_list = <<>> /\ ordering_file.open
        /\ Range(ordering_file.lines) \subseteq DOMAIN bookname_to_ifo)
    => /\ ResolutionSucceeded
       /\ order_list = [k \in 1..Len(ordering_file.lines) |->
                            bookname_to_ifo[ordering_file.lines[k]]]
       /\ disable_list = <<>>

\* C6 witness: the file lists B then A over the catalog {A, B}
C6_Witness ==
    /\ pc = "load"
    /\ use_dict_list = <<>>
    /\ DOMAIN bookname_to_ifo = {"A", "B"}
    /\ ordering_file = [open |-> TRUE, lines |-> <<"B", "A">>]
    /\ order_list = <<bookname_to_ifo["B"], bookname_to_ifo["A"]>>

\* C7: without --use-dict and without an ordering file that opens, resolution
\* succeeds with order_list and disable_list both empty, whatever the catalog,
\* and these two empty lists are what Library::load is given.
C7_NoSelectionIsEmpty ==
    (ReachesResolution /\ PastResolve /\ use_dict_list = <<>> /\ ~ordering_file.open)
    => /\ ResolutionSucceeded
       /\ order_list = <<>>
       /\ disable_list = <<>>
       /\ \A k \in 1..Len(loads) :
            loads[k].order_list = <<>> /\ loads[k].disable_list = <<>>

\* C7 witness: a full catalog, no selection, and the Library loaded
C7_Witness ==
    /\ pc = "session"
    /\ use_dict_list = <<>>
    /\ ~ordering_file.open
    /\ DOMAIN bookname_to_ifo = {"A", "B"}
    /\ Len(loads) = 1
    /\ loads[1].ok

\* C8: with --non-interactive and no words the run never prompts and never
\* calls process_phrase; once the Library is loaded it prints the "no words"
\* message and ends with EXIT_SUCCESS.
C8_NothingToTranslate ==
    (ReachesResolution /\ non_interactive /\ nargs = 0)
    => /\ prompts = 0
       /\ calls = <<>>
       /\ pc \notin {"batch", "read", "lookup"}
       /\ (pc = "done" /\ loads # <<>> /\ loads[1].ok)
            => (exit_status = "EXIT_SUCCESS" /\ out = <<NothingToTranslate>>)

\* C8 witness: the message printed and the run over
C8_Witness ==
    /\ pc = "done"
    /\ non_interactive
    /\ nargs = 0
    /\ loads # <<>>
    /\ out = <<NothingToTranslate>>
    /\ exit_status = "EXIT_SUCCESS"

\* C9: when the parsed options carry --version or --list-dicts the run never
\* builds the catalog map, never resolves order_list / disable_list, never opens
\* the ordering file, never loads the Library, prompts or looks anything up, and
\* it ends with EXIT_SUCCESS whatever --use-dict names and words were given.
C9_VersionAndListSkipSession ==
    (parse_res /\ (show_version \/ show_list_dicts))
    => /\ pc \in {"parsed", "list", "done"}
       /\ bookname_to_ifo = EmptyMap
       /\ ~ordering_file.open
       /\ order_list = <<>>
       /\ disable_list = <<>>
       /\ loads = <<>>
       /\ calls = <<>>
       /\ prompts = 0
       /\ pc = "done" => exit_status = "EXIT_SUCCESS"

\* C9 witness: --list-dicts with a --use-dict name no dictionary carries and
\* words to look up, ended successfully
C9_Witness ==
    /\ pc = "done"
    /\ parse_res
    /\ show_list_dicts
    /\ ~show_version
    /\ use_dict_list = <<"B">>
    /\ files # <<>>
    /\ \A k \in 1..Len(files) : files[k].bookname # "B"
    /\ nargs > 0
    /\ exit_status = "EXIT_SUCCESS"

\* the files the callback loaded successfully, by position in the enumeration
Loaded == {k \in 1..Len(files) : files[k].load_ok}
LastLoaded(name) ==
    CHOOSE k \in Loaded :
        /\ files[k].bookname = name
        /\ \A j \in Loaded : files[j].bookname = name => j <= k

\* C10: at every point of the build the catalog's keys are the booknames of the
\* files loaded so far, each mapped to the path of the last such file in
\* enumeration order; files that failed to load leave no trace and the
\* enumeration goes on after them.
C10_CatalogLastWins ==
    (ReachesResolution /\ pc # "parsed")
    => /\ DOMAIN bookname_to_ifo = {files[k].bookname : k \in Loaded}
       /\ \A n \in DOMAIN bookname_to_ifo :
            bookname_to_ifo[n] = files[LastLoaded(n)].ifo_file_name

\* C10 witness: the same bookname in both directories; the second directory's
\* file is the catalog entry
C10_Witness ==
    /\ pc = "resolve"
    /\ Len(files) = 2
    /\ files[1].load_ok /\ files[1].dir = 1 /\ files[1].bookname = "A"
    /\ files[2].load_ok /\ files[2].dir = 2 /\ files[2].bookname = "A"
    /\ bookname_to_ifo["A"] = files[2].ifo_file_name

\* the map main()'s callback builds from a sequence of enumerated files
RECURSIVE CatalogOf(_)
CatalogOf(fs) ==
    IF fs = <<>> THEN EmptyMap
    ELSE CatalogCallback(CatalogOf(SubSeq(fs, 1, Len(fs) - 1)), fs[Len(fs)])

ListHeader == <<"Dictionary's name   Word count">>

\* the run is list_dicts' run
ListRun == parse_res /\ ~show_version /\ show_list_dicts /\ pc \in {"list", "done"}

\* C11 as stated: the report is the header and then exactly one line per key of
\* the catalog the enumerated files give (one line per distinct bookname).
C11_OneLinePerCatalogEntry ==
    (ListRun /\ pc = "done")
    => LET names == DOMAIN CatalogOf(files) IN
       /\ out[1] = ListHeader
       /\ Len(out) = 1 + Cardinality(names)
       /\ {out[k][2] : k \in 2..Len(out)} = names

\* C11 amended: the report is the header and then one line per file that
\* loaded, in enumeration order, so a bookname carried by two files is printed
\* twice; with no file there is only the header; the run ends with EXIT_SUCCESS.
C11_OneLinePerLoadedFile ==
    ListRun
    => LET loaded == SelectSeq(files, LAMBDA f : f.load_ok) IN
       /\ out = <<ListHeader>> \o [k \in 1..Len(loaded) |-> <<"dict", loaded[k].bookname>>]
       /\ pc = "done" => exit_status = "EXIT_SUCCESS"

\* C11 witness: two files with the same bookname give the header and two lines
C11_Witness ==
    /\ ListRun
    /\ pc = "done"
    /\ Len(files) = 2
    /\ files[1].load_ok /\ files[1].bookname = "A"
    /\ files[2].load_ok /\ files[2].bookname = "A"
    /\ out = <<ListHeader, <<"dict", "A">>, <<"dict", "A">> >>

\* C12: whenever resolution succeeds, no path is in both order_list and
\* disable_list, and every path of order_list is the .ifo path of a catalog entry.
C12_SelectionDisjoint ==
    (ReachesResolution /\ PastResolve /\ ResolutionSucceeded)
    => /\ Range(order_list) \cap Range(disable_list) = {}
       /\ Range(order_list) \subseteq {bookname_to_ifo[n] : n \in DOMAIN bookname_to_ifo}

\* C12 witness: a resolution that both ordered and disabled something
C12_Witness ==
    /\ pc = "load"
    /\ use_dict_list = <<"B">>
    /\ Len(order_list) = 1
    /\ Len(disable_list) = 1

\* C13: with a --use-dict list, a run that finds any ordering file at all (none,
\* one in any order, one naming dictionaries the catalog lacks) never opens it
\* and ends resolution with the same order_list, the same disable_list and the
\* same success or failure as the run that finds none.
C13_OrderingFileIgnored ==
    twin # <<>>
    => /\ twin[1].result.ordering_file = NoOrderingFile
       /\ twin[1].result.order_list = order_list
       /\ twin[1].result.disable_list = disable_list
       /\ twin[1].result.thrown = (pc = "done" /\ exit_status = "EXIT_FAILURE")
       /\ ~twin[1].result.thrown = (pc = "load")

\* C13 witness: the second run's ordering file names a dictionary the catalog
\* lacks, and both runs resolved --use-dict A
C13_Witness ==
    /\ twin # <<>>
    /\ pc = "load"
    /\ use_dict_list = <<"A">>
    /\ DOMAIN bookname_to_ifo = {"A"}
    /\ twin[1].disk = [open |-> TRUE, lines |-> <<"B", "A">>]
    /\ order_list = <<bookname_to_ifo["A"]>>

NonEmpty(lines) == SelectSeq(lines, LAMBDA l : l # "")

\* C14 as stated: with an ordering file whose non-empty lines are all catalog
\* keys, resolution succeeds and order_list is the .ifo path of each non-empty
\* line in file order; the empty lines contribute nothing.
C14_EmptyLinesSkipped ==
    (ReachesResolution /\ PastResolve /\ use_dict_list = <<>> /\ ordering_file.open
        /\ Range(NonEmpty(ordering_file.lines)) \subseteq DOMAIN bookname_to_ifo)
    => /\ ResolutionSucceeded
       /\ order_list = [k \in 1..Len(NonEmpty(ordering_file.lines)) |->
                            bookname_to_ifo[NonEmpty(ordering_file.lines)[k]]]

\* C15 as stated: in interactive mode process_phrase is never called for an
\* empty line.
C15_NoCallOnEmptyLine ==
    \A k \in 1..Len(calls) : calls[k].mode = "interactive" => calls[k].text # ""

\* C15 amended: every line the interactive loop reads, the empty line included,
\* is handed to process_phrase before anything else happens, and when that call
\* returns true the loop goes on to read the next line.
C15_CallOnEveryLine ==
    [][/\ (pc = "read" /\ pc' # "done") => (pc' = "lookup" /\ prompts' = prompts + 1)
       /\ pc = "lookup"
            => /\ Len(calls') = Len(calls) + 1
               /\ SubSeq(calls', 1, Len(calls)) = calls
               /\ calls'[Len(calls')].mode = "interactive"
               /\ calls'[Len(calls')].text = phrase
               /\ calls'[Len(calls')].ok => pc' = "read"]_vars

\* C15 witness: process_phrase was called with the empty line, returned true,
\* and the loop read a second line
C15_Witness ==
    /\ pc = "lookup"
    /\ prompts = 2
    /\ Len(calls) = 1
    /\ calls[1].text = ""
    /\ calls[1].ok

SessionEvidence ==
    \/ pc \in {"session", "batch", "read", "lookup"}
    \/ prompts > 0
    \/ calls # <<>>
    \/ NothingToTranslate \in Range(out)

\* C16: Library::load is called at most once, only after resolution, with
\* dicts_dir_list and the order_list and disable_list that resolution produced;
\* the session (mode choice, prompt, process_phrase, the "no words" message)
\* happens only after that one call has returned.
C16_LoadOnceWithResolvedLists ==
    /\ Len(loads) <= 1
    /\ loads # <<>>
        => LET r == Resolution(bookname_to_ifo, use_dict_list, ordering_file) IN
           /\ ReachesResolution
           /\ pc \in {"session", "batch", "read", "lookup", "done"}
           /\ ~r.thrown
           /\ loads[1].dirs = dicts_dir_list
           /\ loads[1].order_list = r.order_list
           /\ loads[1].disable_list = r.disable_list
    /\ SessionEvidence => (Len(loads) = 1 /\ loads[1].ok)

\* C16 witness: a session under way on a Library loaded with a non-empty
\* order_list and a non-empty disable_list
C16_Witness ==
    /\ pc = "lookup"
    /\ Len(loads) = 1
    /\ loads[1].order_list # <<>>
    /\ loads[1].disable_list # <<>>
    /\ calls # <<>>

BatchTaken == pc = "batch" \/ \E k \in 1..Len(calls) : calls[k].mode = "batch"
InteractiveTaken ==
    \/ pc \in {"read", "lookup"}
    \/ prompts > 0
    \/ \E k \in 1..Len(calls) : calls[k].mode = "interactive"
NothingTaken == NothingToTranslate \in Range(out)

\* C17: once main() has chosen, exactly one of batch, interactive and "no
\* words" has been taken; batch is taken exactly when there are words, whatever
\* non_interactive is; the prompt is called only with no words and
\* non_interactive unset; the message is printed only with no words and
\* non_interactive set.
C17_OneModeQueriesFirst ==
    /\ BatchTaken => (nargs > 0 /\ ~InteractiveTaken /\ ~NothingTaken)
    /\ InteractiveTaken => (nargs = 0 /\ ~non_interactive /\ ~NothingTaken)
    /\ NothingTaken => (nargs = 0 /\ non_interactive)
    /\ SessionStarted
        => /\ BatchTaken \/ InteractiveTaken \/ NothingTaken
           /\ nargs > 0 => BatchTaken

\* C17 witness: words and --non-interactive together: a batch lookup was made
C17_Witness ==
    /\ nargs > 0
    /\ non_interactive
    /\ calls # <<>>
    /\ calls[1].mode = "batch"

\* C18: every run ends; a batch run calls process_phrase at most once per word;
\* an interactive run is over as soon as a process_phrase has returned false,
\* and the only steps that take it out of its loop are end of input (no call,
\* EXIT_SUCCESS) and a process_phrase that returned false (EXIT_FAILURE).
C18_Termination ==
    /\ <>(pc = "done")
    /\ [](BatchTaken
            => /\ Len(calls) <= nargs
               /\ \A k \in 1..Len(calls) : calls[k].idx = k)
    /\ []((InteractiveTaken /\ calls # <<>> /\ ~calls[Len(calls)].ok) => pc = "done")
    /\ [][(pc \in {"read", "lookup"} /\ pc' = "done")
            => \/ /\ pc = "read"
                  /\ calls' = calls
                  /\ prompts' = prompts + 1
                  /\ exit_status' = "EXIT_SUCCESS"
               \/ /\ pc = "lookup"
                  /\ calls' # <<>>
                  /\ ~calls'[Len(calls')].ok
                  /\ exit_status' = "EXIT_FAILURE"]_vars

\* C18 witness: an interactive run over after two looked-up lines and end of input
C18_Witness ==
    /\ pc = "done"
    /\ nargs = 0
    /\ prompts = 3
    /\ Len(calls) = 2
    /\ exit_status = "EXIT_SUCCESS"

====
